---- MODULE Spec2Model ----
(***************************************************************************)
(* Model of the MongoDB MCP server (mcp_server_mongodb/server.py): the     *)
(* MongoDatabase gateway with its insight ledger, and the handlers         *)
(* handle_call_tool and handle_read_resource registered in main().         *)
(*                                                                         *)
(* Texts are modelled as sequences of string tokens: a concatenation in    *)
(* the code is a concatenation of token sequences here, so "begins with"   *)
(* is Head and a memo can be parsed back into its bullets.                 *)
(***************************************************************************)
EXTENDS Integers, Sequences, FiniteSets, TLC

VARIABLES
    insights,       \* db.insights: the ledger, a sequence of insight texts
    store,          \* the backing MongoDB database behind db.db
    notifications,  \* resource-updated notifications sent so far (addresses)
    awaiting,       \* handle_call_tool invocations suspended at the await
    last,           \* the handle_call_tool invocation that has just ended
    read,           \* the handle_read_resource invocation that has just ended
    history,        \* texts of the append-insight calls that passed validation
    seen,           \* the memo the last successful read returned, <<>> once
                    \* an append has followed it
    listed,         \* what the handle_list_resources invocation that has just
                    \* ended returned, <<>> when there is none
    sendFailures    \* the number of calls whose send raised

vars == <<insights, store, notifications, awaiting, last, read, history, seen,
          listed, sendFailures>>

----------------------------------------------------------------------------
(* Bounds of the model *)

MaxInsights == 2    \* appends explored
MaxIds == 2         \* documents ever inserted (generated identifiers)
MaxInFlight == 2    \* handlers suspended at the await at one time

----------------------------------------------------------------------------
(* Values of a JSON arguments payload.  One record shape for every value:  *)
(* a string s, a document {"v": n} (n = 0 is the empty document {}), or an *)
(* array of documents seq (each element n the document {"v": n}).          *)

Absent == [type |-> "absent", s |-> "", n |-> 0, seq |-> <<>>]
StrV(s) == [type |-> "string", s |-> s, n |-> 0, seq |-> <<>>]
ObjV(n) == [type |-> "object", s |-> "", n |-> n, seq |-> <<>>]
ArrV(q) == [type |-> "array", s |-> "", n |-> 0, seq |-> q]

AllKeys == {"collection", "query", "pipeline", "documents", "filter",
            "update", "name", "insight"}

CollNames == {"orders"}
Texts == {"Sales spike in Q4", "Churn is rising"}

ValuesFor(k) ==
    CASE k = "collection" -> {StrV("orders"), ObjV(0)}
      [] k = "query"      -> {ObjV(0), ObjV(1), StrV("x")}
      [] k = "pipeline"   -> {ArrV(<<>>), ArrV(<<1>>), ObjV(1)}
      [] k = "documents"  -> {ArrV(<<1>>), ArrV(<<1, 2>>), ArrV(<<>>), ObjV(1), StrV("x")}
      [] k = "filter"     -> {ObjV(0), ObjV(1), StrV("x")}
      [] k = "update"     -> {ObjV(2), ObjV(0)}
      [] k = "name"       -> {StrV("orders")}
      [] k = "insight"    -> {StrV(t) : t \in Texts}

AllValues == UNION {ValuesFor(k) : k \in AllKeys}

(* arguments: dict[str, Any] | None.  present = FALSE is None; a key that  *)
(* is not in the dict maps to Absent.                                      *)
NoMap == [k \in AllKeys |-> Absent]
None == [present |-> FALSE, map |-> NoMap]
Dict(m) == [present |-> TRUE, map |-> m]
Keys(arguments) == {k \in AllKeys : arguments.map[k].type # "absent"}

ToolNames == {"find", "aggregate", "insert", "update", "delete",
              "create-collection", "list-collections", "append-insight"}
GatewayTools == {"find", "aggregate", "insert", "update", "delete",
                 "create-collection"}
UnknownNames == {"drop-database", "create_collection"}
Names == ToolNames \cup UnknownNames

(* inputSchema "required" of each tool, lines 218-324 *)
Required(name) ==
    CASE name = "find"              -> {"collection", "query"}
      [] name = "aggregate"         -> {"collection", "pipeline"}
      [] name = "insert"            -> {"collection", "documents"}
      [] name = "update"            -> {"collection", "filter", "update"}
      [] name = "delete"            -> {"collection", "filter"}
      [] name = "create-collection" -> {"name"}
      [] name = "append-insight"    -> {"insight"}
      [] OTHER                      -> {}

(* inputSchema "properties" types of each tool, lines 218-324 *)
SchemaType(k) ==
    CASE k \in {"collection", "name", "insight"} -> "string"
      [] k \in {"query", "filter", "update"}     -> "object"
      [] k \in {"pipeline", "documents"}         -> "array"

(* The payloads a client may send with tool `name`: none, the empty dict,  *)
(* and every dict over the tool's keys (and one key foreign to it), each   *)
(* key absent or holding one of its values.                                *)
PayloadKeys(name) ==
    CASE name = "find"              -> <<"collection", "query", "insight">>
      [] name = "aggregate"         -> <<"collection", "pipeline", "insight">>
      [] name = "insert"            -> <<"collection", "documents", "insight">>
      [] name = "update"            -> <<"collection", "filter", "update">>
      [] name = "delete"            -> <<"collection", "filter", "insight">>
      [] name = "create-collection" -> <<"name", "collection", "insight">>
      [] name = "append-insight"    -> <<"insight", "collection", "name">>
      [] OTHER                      -> <<"collection", "name", "insight">>

Choices(name, k) ==
    IF k \in Required(name) THEN ValuesFor(k) \cup {Absent}
    ELSE IF k = "collection" THEN {StrV("orders"), Absent}
    ELSE {Absent}

ArgsFor(name) ==
    LET ks == PayloadKeys(name) IN
    {None} \cup
    {Dict([NoMap EXCEPT ![ks[1]] = a, ![ks[2]] = b, ![ks[3]] = c]) :
        a \in Choices(name, ks[1]), b \in Choices(name, ks[2]), c \in Choices(name, ks[3])}

(* The requests a client may send *)
Requests == {[name |-> name, arguments |-> arguments] :
                name \in Names, arguments \in UNION {ArgsFor(n) : n \in Names}}
ToolCalls == {r \in Requests : r.arguments \in ArgsFor(r.name)}

(* `arguments is None`: the empty dict passes *)
FalsyNoneOnly(arguments) == ~arguments.present

(* `not arguments`: None and the empty dict are both falsy, lines 337, 349 *)
Falsy(arguments) == ~arguments.present \/ Keys(arguments) = {}

----------------------------------------------------------------------------
(* Texts *)

RECURSIVE Join(_, _)
(* sep.join(items), items a sequence of texts *)
Join(items, sep) ==
    IF items = <<>> THEN <<>>
    ELSE IF Len(items) = 1 THEN items[1]
    ELSE items[1] \o sep \o Join(Tail(items), sep)

(* str(list) of the already rendered items *)
StrList(items) == <<"[">> \o Join(items, <<", ">>) \o <<"]">>

(* f"- {insight}" *)
Bullet(insight) == <<"- ", insight>>

NoInsightsYet == "No business insights have been discovered yet."
(* the chart emoji that frame the title are written [chart] *)
MemoTitle == "[chart] Business Intelligence Memo [chart]\n\n"
MemoHeader == "Key Insights Discovered:\n\n"
SummaryHeader == "\nSummary:\n"

(* The summary added from the first insight on *)
SynthesizeMemoSummaryAlways(ins) ==
    IF ins = <<>> THEN <<NoInsightsYet>>
    ELSE <<MemoTitle, MemoHeader>>
         \o Join([i \in 1..Len(ins) |-> Bullet(ins[i])], <<"\n">>)
         \o <<SummaryHeader, "Analysis has revealed ", ToString(Len(ins)),
              " key business insights that suggest opportunities for strategic optimization and growth.">>

(* The bullets written newest first *)
SynthesizeMemoNewestFirst(ins) ==
    IF ins = <<>> THEN <<NoInsightsYet>>
    ELSE <<MemoTitle, MemoHeader>>
         \o Join([i \in 1..Len(ins) |-> Bullet(ins[Len(ins) + 1 - i])], <<"\n">>)
         \o (IF Len(ins) > 1
             THEN <<SummaryHeader, "Analysis has revealed ", ToString(Len(ins)),
                    " key business insights that suggest opportunities for strategic optimization and growth.">>
             ELSE <<>>)

(* MongoDatabase._synthesize_memo *)
SynthesizeMemo(ins) ==
    IF ins = <<>> THEN <<NoInsightsYet>>
    ELSE <<MemoTitle, MemoHeader>>
         \o Join([i \in 1..Len(ins) |-> Bullet(ins[i])], <<"\n">>)
         \o (IF Len(ins) > 1
             THEN <<SummaryHeader, "Analysis has revealed ", ToString(Len(ins)),
                    " key business insights that suggest opportunities for strategic optimization and growth.">>
             ELSE <<>>)

----------------------------------------------------------------------------
(* The backing store: the documents of each collection, the collections    *)
(* that exist, and the next identifier the driver generates.  A document   *)
(* is [id, v]: its generated _id and the value of its one field.           *)

EmptyStore == [colls |-> [c \in CollNames |-> <<>>], existing |-> {}, nextId |-> 1]

Matches(d, filter) == filter.n = 0 \/ d.v = filter.n

(* json.loads(json_util.dumps(doc)) then str(): the identifier comes back  *)
(* as the text of its $oid                                                 *)
DocText(d) == <<"{'_id': {'$oid': '", ToString(d.id), "'}, 'v': ", ToString(d.v), "}">>

DocsText(docs) == [i \in 1..Len(docs) |-> DocText(docs[i])]

(* Exceptions: every kind below is a subclass of Exception *)
Exc(kind, msg) == [kind |-> kind, msg |-> msg]
NoExc == Exc("none", <<>>)
StoreFault == Exc("PyMongoError", <<"store fault">>)
SendFault == Exc("SendError", <<"send failed">>)
(* str(KeyError(k)) is the repr of the key *)
KeyError(k) == Exc("KeyError", <<"'", k, "'">>)

(* What a call of the gateway gives: a result list or a raised exception,  *)
(* the store after it, and what it did ("gateway": _execute_query entered, *)
(* "store": a method of the driver called).                                *)
GOut(raised, exc, results, st, events) ==
    [raised |-> raised, exc |-> exc, results |-> results, store |-> st,
     events |-> events]
GRaise(exc, st, events) == GOut(TRUE, exc, <<>>, st, events)
GReturn(results, st, events) == GOut(FALSE, NoExc, results, st, events)

(* The query argument of _execute_query: a value handed over as it came    *)
(* (find, insert, delete) or a dict the router built (aggregate, update,   *)
(* create_collection).                                                     *)
QVal(v) == [val |-> v, dict |-> NoMap]
QDict(m) == [val |-> Absent, dict |-> m]
(* query.get(k, default) *)
Get(query, k, default) ==
    IF query.dict[k] = Absent THEN default ELSE query.dict[k]

RECURSIVE NewDocs(_, _)
(* the documents insert_many stores for the values vs, identifiers from id *)
NewDocs(vs, id) ==
    IF vs = <<>> THEN <<>>
    ELSE <<[id |-> id, v |-> Head(vs)]>> \o NewDocs(Tail(vs), id + 1)

(* A cap on the cursor, limit(1) *)
StoreFindLimited(st, c, filter, events) ==
    LET found == SelectSeq(st.colls[c], LAMBDA d : Matches(d, filter))
    IN GReturn(DocsText(SubSeq(found, 1, IF Len(found) > 1 THEN 1 ELSE Len(found))),
               st, events)

StoreFind(st, c, filter, events) ==
    GReturn(DocsText(SelectSeq(st.colls[c], LAMBDA d : Matches(d, filter))), st, events)

StoreAggregate(st, c, pipeline, events) ==
    GReturn(DocsText(SelectSeq(st.colls[c],
                LAMBDA d : \A i \in 1..Len(pipeline.seq) : d.v = pipeline.seq[i])),
            st, events)

StoreInsertMany(st, c, vs, events) ==
    LET docs == NewDocs(vs, st.nextId) IN
    GReturn(<< <<"{'inserted_ids': ">>
               \o StrList([i \in 1..Len(docs) |-> <<"'", ToString(docs[i].id), "'">>])
               \o <<"}">> >>,
            [colls |-> [st.colls EXCEPT ![c] = @ \o docs],
             existing |-> st.existing \cup {c},
             nextId |-> st.nextId + Len(vs)],
            events)

StoreInsertOne(st, c, v, events) ==
    GReturn(<< <<"{'inserted_id': '", ToString(st.nextId), "'}">> >>,
            [colls |-> [st.colls EXCEPT ![c] = Append(@, [id |-> st.nextId, v |-> v])],
             existing |-> st.existing \cup {c},
             nextId |-> st.nextId + 1],
            events)

(* update_one in place of update_many: the first match alone *)
StoreUpdateFirst(st, c, filter, update, events) ==
    LET hit == {i \in 1..Len(st.colls[c]) : Matches(st.colls[c][i], filter)}
        first == IF hit = {} THEN 0 ELSE CHOOSE i \in hit : \A j \in hit : i <= j
        modified == IF first # 0 /\ st.colls[c][first].v # update.n THEN 1 ELSE 0
    IN GReturn(<< <<"{'modified_count': ", ToString(modified), "}">> >>,
               [st EXCEPT !.colls[c] =
                   [i \in 1..Len(@) |-> IF i = first THEN [@[i] EXCEPT !.v = update.n]
                                        ELSE @[i]]],
               events)

(* update_many(filter, {"$set": {"v": n}}) *)
StoreUpdateMany(st, c, filter, update, events) ==
    LET modified == Cardinality({i \in 1..Len(st.colls[c]) :
                        Matches(st.colls[c][i], filter) /\ st.colls[c][i].v # update.n})
    IN GReturn(<< <<"{'modified_count': ", ToString(modified), "}">> >>,
               [st EXCEPT !.colls[c] =
                   [i \in 1..Len(@) |-> IF Matches(@[i], filter)
                                        THEN [@[i] EXCEPT !.v = update.n]
                                        ELSE @[i]]],
               events)

StoreDeleteMany(st, c, filter, events) ==
    LET kept == SelectSeq(st.colls[c], LAMBDA d : ~Matches(d, filter))
    IN GReturn(<< <<"{'deleted_count': ", ToString(Len(st.colls[c]) - Len(kept)), "}">> >>,
               [st EXCEPT !.colls[c] = kept],
               events)

StoreCreateCollection(st, c, events) ==
    IF c \in st.existing
    THEN GRaise(Exc("CollectionInvalid", <<"collection ", c, " already exists">>),
                st, events)
    ELSE GReturn(<< <<"{'message': 'Collection ", c, " created successfully'}">> >>,
                 [st EXCEPT !.existing = @ \cup {c}], events)

(* The store fails the operation it was sent *)
StoreFaulted(st, events) == GRaise(StoreFault, st, events \o <<"fault">>)

(* The try block of _execute_query, lines 145-180.  fault: the store fails *)
(* this operation.  The driver checks the types of what it is given before *)
(* it sends it.                                                            *)
ExecuteQueryTry(st, query, operation, collection_name, fault) ==
    LET entered == <<"gateway">>
        called == <<"gateway", "store">>
    IN
    IF collection_name.type # "string"
    THEN GRaise(Exc("TypeError", <<"name must be an instance of str">>), st, entered)
    ELSE LET c == collection_name.s IN
    IF operation = "find" THEN
        IF query.val.type # "object"
        THEN GRaise(Exc("TypeError", <<"filter must be an instance of dict">>), st, called)
        ELSE IF fault THEN StoreFaulted(st, called)
        ELSE StoreFind(st, c, query.val, called)
    ELSE IF operation = "aggregate" THEN
        LET pipeline == Get(query, "pipeline", ArrV(<<>>)) IN
        IF pipeline.type # "array"
        THEN GRaise(Exc("TypeError", <<"pipeline must be a list">>), st, called)
        ELSE IF fault THEN StoreFaulted(st, called)
        ELSE StoreAggregate(st, c, pipeline, called)
    ELSE IF operation = "insert" THEN
        IF query.val.type = "array" THEN
            IF query.val.seq = <<>>
            THEN GRaise(Exc("TypeError", <<"documents must be a non-empty list">>), st, called)
            ELSE IF fault THEN StoreFaulted(st, called)
            ELSE StoreInsertMany(st, c, query.val.seq, called)
        ELSE
            IF query.val.type # "object"
            THEN GRaise(Exc("TypeError", <<"document must be an instance of dict">>), st, called)
            ELSE IF fault THEN StoreFaulted(st, called)
            ELSE StoreInsertOne(st, c, query.val.n, called)
    ELSE IF operation = "update" THEN
        LET filter_query == Get(query, "filter", ObjV(0))
            update_query == Get(query, "update", ObjV(0))
        IN
        IF filter_query.type # "object"
        THEN GRaise(Exc("TypeError", <<"filter must be an instance of dict">>), st, called)
        ELSE IF update_query.type # "object"
        THEN GRaise(Exc("TypeError", <<"update must be an instance of dict">>), st, called)
        ELSE IF update_query.n = 0
        THEN GRaise(Exc("ValueError", <<"update cannot be empty">>), st, called)
        ELSE IF fault THEN StoreFaulted(st, called)
        ELSE StoreUpdateMany(st, c, filter_query, update_query, called)
    ELSE IF operation = "delete" THEN
        IF query.val.type # "object"
        THEN GRaise(Exc("TypeError", <<"filter must be an instance of dict">>), st, called)
        ELSE IF fault THEN StoreFaulted(st, called)
        ELSE StoreDeleteMany(st, c, query.val, called)
    ELSE IF operation = "create_collection" THEN
        IF fault THEN StoreFaulted(st, called)
        ELSE StoreCreateCollection(st, c, called)
    ELSE GRaise(Exc("ValueError", <<"Unsupported operation: ", operation>>), st, entered)

(* The exception swallowed: an empty result list comes back *)
ReraiseSuppressed(g) == GReturn(<<>>, g.store, g.events)

(* The except clause of lines 182-184: the exception is logged and raised  *)
(* again as it is                                                          *)
Reraise(g) == GRaise(g.exc, g.store, g.events)

(* MongoDatabase._execute_query *)
ExecuteQuery(st, query, operation, collection_name, fault) ==
    LET g == ExecuteQueryTry(st, query, operation, collection_name, fault)
    IN IF g.raised THEN Reraise(g) ELSE g

----------------------------------------------------------------------------
(* handle_call_tool *)

MemoUri == <<"memo", "://", "insights">>

(* What the body of the try block comes to: it returns a text, raises, or  *)
(* is suspended at the await of send_resource_updated.                     *)
BOut(kind, text, exc, st, ins, events) ==
    [kind |-> kind, text |-> text, exc |-> exc, store |-> st, insights |-> ins,
     events |-> events]
BReturn(text, st, ins, events) == BOut("return", text, NoExc, st, ins, events)
BRaise(exc, st, ins, events) == BOut("raise", <<>>, exc, st, ins, events)
BAwait(st, ins, events) == BOut("await", <<>>, NoExc, st, ins, events)

(* The order in which a branch subscripts arguments, lines 352-398 *)
ArgOrder(name) ==
    CASE name = "find"              -> <<"query", "collection">>
      [] name = "aggregate"         -> <<"pipeline", "collection">>
      [] name = "insert"            -> <<"documents", "collection">>
      [] name = "update"            -> <<"filter", "update", "collection">>
      [] name = "delete"            -> <<"filter", "collection">>
      [] name = "create-collection" -> <<"name">>

(* The tool name handed over as the operation name *)
OperationVerbatim(name) == name

(* The operation name a branch hands to _execute_query *)
Operation(name) ==
    IF name = "create-collection" THEN "create_collection" ELSE name

(* The query a branch hands to _execute_query *)
QueryOf(name, arguments) ==
    CASE name = "find"      -> QVal(arguments.map["query"])
      [] name = "aggregate" -> QDict([NoMap EXCEPT !["pipeline"] = arguments.map["pipeline"]])
      [] name = "insert"    -> QVal(arguments.map["documents"])
      [] name = "update"    -> QDict([NoMap EXCEPT !["filter"] = arguments.map["filter"],
                                                   !["update"] = arguments.map["update"]])
      [] name = "delete"    -> QVal(arguments.map["filter"])
      [] name = "create-collection" -> QDict(NoMap)

(* The collection name a branch hands to _execute_query *)
CollectionOf(name, arguments) ==
    IF name = "create-collection" THEN arguments.map["name"]
    ELSE arguments.map["collection"]

(* The subscripts replaced by arguments.get(key): a missing key reaches    *)
(* _execute_query as None                                                  *)
GatewayBranchDefaults(name, arguments, st, ins, fault) ==
    LET g == ExecuteQuery(st, QueryOf(name, arguments), Operation(name),
                          CollectionOf(name, arguments), fault)
    IN IF g.raised THEN BRaise(g.exc, g.store, ins, g.events)
       ELSE BReturn(StrList(g.results), g.store, ins, g.events)

(* One of the six branches find .. create-collection, lines 352-398: the   *)
(* subscripts are evaluated first and the first missing key raises         *)
(* KeyError before _execute_query is entered.                              *)
GatewayBranch(name, arguments, st, ins, fault) ==
    LET order == ArgOrder(name)
        missing == {i \in 1..Len(order) : order[i] \notin Keys(arguments)}
    IN
    IF missing # {}
    THEN BRaise(KeyError(order[CHOOSE i \in missing : \A j \in missing : i <= j]),
                st, ins, <<>>)
    ELSE LET g == ExecuteQuery(st, QueryOf(name, arguments), Operation(name),
                               CollectionOf(name, arguments), fault)
         IN IF g.raised THEN BRaise(g.exc, g.store, ins, g.events)
            ELSE BReturn(StrList(g.results), g.store, ins, g.events)

RECURSIVE NamesText(_)
(* the collection names as str() renders each of them *)
NamesText(S) ==
    IF S = {} THEN <<>>
    ELSE LET c == CHOOSE x \in S : TRUE
         IN << <<"'", c, "'">> >> \o NamesText(S \ {c})

(* The list-collections branch, lines 332-334 *)
ListCollectionsBranch(st, ins, fault) ==
    IF fault THEN BRaise(StoreFault, st, ins, <<"store", "fault">>)
    ELSE BReturn(StrList(NamesText(st.existing)), st, ins, <<"store">>)

(* The ledger replaced by the new insight alone *)
AppendInsightBranchOverwrite(arguments, st, ins) ==
    IF Falsy(arguments) \/ "insight" \notin Keys(arguments)
    THEN BRaise(Exc("ValueError", <<"Missing insight argument">>), st, ins, <<>>)
    ELSE BAwait(st, <<arguments.map["insight"].s>>,
                <<"append", "synthesize", "send">>)

(* The notification sent for an insight that was not appended *)
AppendInsightBranchNoAppend(arguments, st, ins) ==
    IF Falsy(arguments) \/ "insight" \notin Keys(arguments)
    THEN BRaise(Exc("ValueError", <<"Missing insight argument">>), st, ins, <<>>)
    ELSE BAwait(st, ins, <<"append", "synthesize", "send">>)

(* The insight put at the front of the ledger *)
AppendInsightBranchPrepend(arguments, st, ins) ==
    IF Falsy(arguments) \/ "insight" \notin Keys(arguments)
    THEN BRaise(Exc("ValueError", <<"Missing insight argument">>), st, ins, <<>>)
    ELSE BAwait(st, <<arguments.map["insight"].s>> \o ins,
                <<"append", "synthesize", "send">>)

(* The check without `not arguments`: `in` on None raises TypeError *)
AppendInsightBranchNoNoneCheck(arguments, st, ins) ==
    IF ~arguments.present
    THEN BRaise(Exc("TypeError", <<"argument of type 'NoneType' is not iterable">>),
                st, ins, <<>>)
    ELSE IF "insight" \notin Keys(arguments)
    THEN BRaise(Exc("ValueError", <<"Missing insight argument">>), st, ins, <<>>)
    ELSE BAwait(st, Append(ins, arguments.map["insight"].s),
                <<"append", "synthesize", "send">>)

(* The append-insight branch up to its await, lines 336-343 *)
AppendInsightBranch(arguments, st, ins) ==
    IF Falsy(arguments) \/ "insight" \notin Keys(arguments)
    THEN BRaise(Exc("ValueError", <<"Missing insight argument">>), st, ins, <<>>)
    ELSE BAwait(st, Append(ins, arguments.map["insight"].s),
                <<"append", "synthesize", "send">>)

(* The body of the try block, lines 332-401 *)
ToolBody(name, arguments, st, ins, fault) ==
    IF name = "list-collections" THEN ListCollectionsBranch(st, ins, fault)
    ELSE IF name = "append-insight" THEN AppendInsightBranch(arguments, st, ins)
    ELSE IF Falsy(arguments)
    THEN BRaise(Exc("ValueError", <<"Missing arguments">>), st, ins, <<>>)
    ELSE IF name \in GatewayTools THEN GatewayBranch(name, arguments, st, ins, fault)
    ELSE BRaise(Exc("ValueError", <<"Unknown tool: ", name>>), st, ins, <<>>)

(* What the handler hands to the transport: content items, or an exception *)
(* that left the handler.                                                  *)
TextContent(text) == [type |-> "text", text |-> text]
Returned(text) == [raised |-> FALSE, content |-> <<TextContent(text)>>, exc |-> NoExc]
Escaped(exc) == [raised |-> TRUE, content |-> <<>>, exc |-> exc]

(* except ValueError as e: any other exception leaves the handler *)
ExceptClauseValueErrorOnly(exc) ==
    IF exc.kind = "ValueError" THEN Returned(<<"Error: ">> \o exc.msg)
    ELSE Escaped(exc)

(* except Exception as e, lines 403-404 *)
ExceptClause(exc) == Returned(<<"Error: ">> \o exc.msg)

(* The end of an invocation: the record kept of it in `last` *)
Ended(name, arguments, events, failed, resp) ==
    [name |-> name, arguments |-> arguments, events |-> events,
     failed |-> failed, resp |-> resp]
NoCall == Ended("", None, <<>>, FALSE, [raised |-> FALSE, content |-> <<>>, exc |-> NoExc])

(* A suspended invocation: its request, what it has done so far, and its   *)
(* place among the append-insight calls that passed validation             *)
Suspended(name, arguments, events, nth) ==
    [name |-> name, arguments |-> arguments, events |-> events, nth |-> nth]

----------------------------------------------------------------------------
(* handle_read_resource *)

(* An address is the token sequence of str(uri); its first token is the    *)
(* scheme.                                                                 *)
Uris == {MemoUri, <<"memo", "://", "other">>, <<"file", "://", "insights">>,
         <<"memo", "://", "insights", "/", "q4">>, <<"memo", "://", "insights", "/">>,
         <<"memo", "://", "memo", "//", "insights">>, <<"insights", "://", "memo">>}

RECURSIVE RemoveMemoPrefix(_)
(* str(uri).replace("memo://", ""): every occurrence is removed *)
RemoveMemoPrefix(t) ==
    IF Len(t) >= 2 /\ t[1] = "memo" /\ t[2] = "://"
    THEN RemoveMemoPrefix(SubSeq(t, 3, Len(t)))
    ELSE IF t = <<>> THEN <<>>
    ELSE <<Head(t)>> \o RemoveMemoPrefix(Tail(t))

ReadOut(uri, raised, text, exc) ==
    [uri |-> uri, raised |-> raised, text |-> text, exc |-> exc, prev |-> <<>>]
NoRead == ReadOut(<<>>, FALSE, <<>>, NoExc)

(* A read that serves the memo as it was before the newest insight *)
HandleReadResourceStale(uri, ins) ==
    IF uri[1] # "memo"
    THEN ReadOut(uri, TRUE, <<>>,
                 Exc("ValueError", <<"Unsupported URI scheme: ", uri[1]>>))
    ELSE LET path == RemoveMemoPrefix(uri) IN
         IF path = <<>> \/ path # <<"insights">>
         THEN ReadOut(uri, TRUE, <<>>,
                      Exc("ValueError", <<"Unknown resource path: ">> \o path))
         ELSE ReadOut(uri, FALSE,
                      SynthesizeMemo(IF ins = <<>> THEN ins ELSE SubSeq(ins, 1, Len(ins) - 1)),
                      NoExc)

(* Only the scheme checked: every memo address serves the memo *)
HandleReadResourceSchemeOnly(uri, ins) ==
    IF uri[1] # "memo"
    THEN ReadOut(uri, TRUE, <<>>,
                 Exc("ValueError", <<"Unsupported URI scheme: ", uri[1]>>))
    ELSE ReadOut(uri, FALSE, SynthesizeMemo(ins), NoExc)

(* handle_read_resource, lines 204-216 *)
HandleReadResource(uri, ins) ==
    IF uri[1] # "memo"
    THEN ReadOut(uri, TRUE, <<>>,
                 Exc("ValueError", <<"Unsupported URI scheme: ", uri[1]>>))
    ELSE LET path == RemoveMemoPrefix(uri) IN
         IF path = <<>> \/ path # <<"insights">>
         THEN ReadOut(uri, TRUE, <<>>,
                      Exc("ValueError", <<"Unknown resource path: ">> \o path))
         ELSE ReadOut(uri, FALSE, SynthesizeMemo(ins), NoExc)

----------------------------------------------------------------------------
(* The state machine.  The transport delivers one request at a time and    *)
(* sends its response before it delivers the next: a request starts only   *)
(* when no invocation is suspended and no response waits to be sent.       *)

Init ==
    /\ insights = <<>>
    /\ store = EmptyStore
    /\ notifications = <<>>
    /\ awaiting = <<>>
    /\ last = NoCall
    /\ read = NoRead
    /\ history = <<>>
    /\ seen = <<>>
    /\ listed = <<>>
    /\ sendFailures = 0

(* No response waits to be sent *)
Quiet == last = NoCall /\ read = NoRead /\ listed = <<>>
Idle == awaiting = <<>> /\ Quiet

(* handle_call_tool from its entry to its return, or to the await *)
HandleCallTool(name, arguments, fault) ==
    LET out == ToolBody(name, arguments, store, insights, fault) IN
    /\ Len(history) + (IF out.kind = "await" THEN 1 ELSE 0) <= MaxInsights
    /\ out.store.nextId <= MaxIds + 1
    /\ insights' = out.insights
    /\ store' = out.store
    /\ IF out.kind = "await"
       THEN /\ awaiting' = Append(awaiting, Suspended(name, arguments, out.events,
                                                     Len(history) + 1))
            /\ history' = Append(history, arguments.map["insight"].s)
            /\ seen' = <<>>
            /\ UNCHANGED last
       ELSE /\ last' = IF out.kind = "raise"
                       THEN Ended(name, arguments, out.events, TRUE, ExceptClause(out.exc))
                       ELSE Ended(name, arguments, out.events, FALSE, Returned(out.text))
            /\ UNCHANGED <<awaiting, history, seen>>
    /\ UNCHANGED <<notifications, read, listed, sendFailures>>

(* A tools/call request *)
CallTool(name, arguments, fault) ==
    /\ Idle
    /\ HandleCallTool(name, arguments, fault)

(* The i-th suspended invocation taken out *)
Without(q, i) == SubSeq(q, 1, i - 1) \o SubSeq(q, i + 1, Len(q))

(* The send returns but nothing was written *)
SendCompletedSilent(i) ==
    /\ Quiet
    /\ last' = Ended(awaiting[i].name, awaiting[i].arguments,
                     awaiting[i].events \o <<"notify", "return">>, FALSE,
                     Returned(<<"Insight added to memo">>))
    /\ awaiting' = Without(awaiting, i)
    /\ UNCHANGED <<insights, store, notifications, read, history, seen, listed, sendFailures>>

(* One notification for all the invocations that wait: it is written by   *)
(* the last of them to resume                                              *)
SendCompletedCoalesced(i) ==
    /\ Quiet
    /\ notifications' = IF Len(awaiting) > 1 THEN notifications
                        ELSE Append(notifications, MemoUri)
    /\ last' = Ended(awaiting[i].name, awaiting[i].arguments,
                     awaiting[i].events \o <<"notify", "return">>, FALSE,
                     Returned(<<"Insight added to memo">>))
    /\ awaiting' = Without(awaiting, i)
    /\ UNCHANGED <<insights, store, read, history, seen, listed, sendFailures>>

(* The await of the i-th suspended invocation completes: the notification  *)
(* is written and the handler returns, lines 343-347                       *)
SendCompleted(i) ==
    /\ Quiet
    /\ notifications' = Append(notifications, MemoUri)
    /\ last' = Ended(awaiting[i].name, awaiting[i].arguments,
                     awaiting[i].events \o <<"notify", "return">>, FALSE,
                     Returned(<<"Insight added to memo">>))
    /\ awaiting' = Without(awaiting, i)
    /\ UNCHANGED <<insights, store, read, history, seen, listed, sendFailures>>

(* The insight taken back when the send raises *)
SendRaisedRollback(i) ==
    /\ Quiet
    /\ last' = Ended(awaiting[i].name, awaiting[i].arguments,
                     awaiting[i].events \o <<"raise">>, TRUE, ExceptClause(SendFault))
    /\ awaiting' = Without(awaiting, i)
    /\ sendFailures' = sendFailures + 1
    /\ insights' = SubSeq(insights, 1, Len(insights) - 1)
    /\ UNCHANGED <<store, notifications, read, history, seen, listed>>

(* The await of the i-th suspended invocation raises: nothing is written   *)
(* and the except clause takes over, lines 343-345 and 403-404             *)
SendRaised(i) ==
    /\ Quiet
    /\ last' = Ended(awaiting[i].name, awaiting[i].arguments,
                     awaiting[i].events \o <<"raise">>, TRUE, ExceptClause(SendFault))
    /\ awaiting' = Without(awaiting, i)
    /\ sendFailures' = sendFailures + 1
    /\ UNCHANGED <<insights, store, notifications, read, history, seen, listed>>

(* send_resource_updated completes *)
SendResourceUpdated ==
    /\ awaiting # <<>>
    /\ SendCompleted(1)

(* send_resource_updated raises *)
SendResourceUpdatedFails ==
    /\ awaiting # <<>>
    /\ SendRaised(1)

(* handle_read_resource; prev records the memo the read before it          *)
(* returned, when no append came between the two                           *)
HandleRead(uri) ==
    /\ read' = [HandleReadResource(uri, insights) EXCEPT !.prev = seen]
    /\ seen' = IF read'.raised THEN seen ELSE read'.text
    /\ UNCHANGED <<insights, store, notifications, awaiting, last, history, listed,
                   sendFailures>>

(* A resources/read request *)
ReadResource(uri) ==
    /\ Idle
    /\ HandleRead(uri)

(* handle_list_resources, lines 192-202: the one resource, its address,    *)
(* name and media type                                                     *)
HandleListResources ==
    << <<Join(<<MemoUri>>, <<>>), <<"Business Insights Memo">>, <<"text/plain">> >> >>

(* An invocation of handle_list_resources *)
HandleList ==
    /\ listed' = HandleListResources
    /\ UNCHANGED <<insights, store, notifications, awaiting, last, read, history, seen,
                   sendFailures>>

(* A resources/list request *)
ListResources ==
    /\ Idle
    /\ HandleList

(* The transport sends the response (or the fault) of the invocation that  *)
(* has just ended, server.run at line 408                                  *)
Respond ==
    /\ ~Quiet
    /\ last' = NoCall
    /\ read' = NoRead
    /\ listed' = <<>>
    /\ UNCHANGED <<insights, store, notifications, awaiting, history, seen, sendFailures>>

Next ==
    \/ \E r \in ToolCalls : \E fault \in BOOLEAN :
           CallTool(r.name, r.arguments, fault)
    \/ SendResourceUpdated
    \/ SendResourceUpdatedFails
    \/ \E uri \in Uris : ReadResource(uri)
    \/ ListResources
    \/ Respond

Spec == Init /\ [][Next]_vars

(* Requests dispatched as they arrive: a handler starts while others are   *)
(* suspended at the await of line 343, and the suspended handlers resume   *)
(* in any order.  Between two awaits a handler runs alone on the event     *)
(* loop.  The calls are those of the branches that do not go through       *)
(* _execute_query: that one has no await, its handlers run from entry to   *)
(* return in one step and use neither the ledger nor the session.          *)
LedgerCalls == {r \in ToolCalls : r.name \notin GatewayTools}

CallToolConcurrent(name, arguments, fault) ==
    /\ Quiet
    /\ HandleCallTool(name, arguments, fault)
    /\ Len(awaiting') <= MaxInFlight

ReadResourceConcurrent(uri) ==
    /\ Quiet
    /\ HandleRead(uri)

ListResourcesConcurrent ==
    /\ Quiet
    /\ HandleList

SendCompletes == \E i \in 1..Len(awaiting) : SendCompleted(i)

SendRaises == \E i \in 1..Len(awaiting) : SendRaised(i)

NextConcurrent ==
    \/ \E r \in LedgerCalls : \E fault \in BOOLEAN :
           CallToolConcurrent(r.name, r.arguments, fault)
    \/ SendCompletes
    \/ SendRaises
    \/ \E uri \in Uris : ReadResourceConcurrent(uri)
    \/ ListResourcesConcurrent
    \/ Respond

SpecConcurrent == Init /\ [][NextConcurrent]_vars

----------------------------------------------------------------------------
(* Properties *)

Range(q) == {q[i] : i \in 1..Len(q)}

(* The payload is None or the empty dict *)
EmptyPayload(arguments) ==
    ~arguments.present \/ \A k \in AllKeys : arguments.map[k] = Absent

(* A tool invocation has just ended; the text of its one content item *)
CallEnded == last # NoCall
OneText ==
    /\ ~last.resp.raised
    /\ Len(last.resp.content) = 1
    /\ last.resp.content[1].type = "text"
LastText == last.resp.content[1].text
LastInsight == last.arguments.map["insight"].s

(* A read of the memo has just returned normally *)
MemoRead == read # NoRead /\ ~read.raised

RECURSIVE Bullets(_)
(* The bullets of a memo text, in the order they stand in it: the token    *)
(* that follows each "- "                                                  *)
Bullets(t) ==
    IF Len(t) < 2 THEN <<>>
    ELSE IF t[1] = "- " THEN <<t[2]>> \o Bullets(SubSeq(t, 3, Len(t)))
    ELSE Bullets(Tail(t))

(* The positions of a token in a text *)
Positions(t, tok) == {i \in 1..Len(t) : t[i] = tok}

\* C1: every tool call, whatever its name, its payload and the faults of the
\* store or of the notification send, ends with the handler returning exactly
\* one text item, never with an exception leaving the handler; when the call
\* failed the text begins with "Error: ".
C1_HandlerNeverRaises ==
    CallEnded =>
        /\ OneText
        /\ last.failed => Head(LastText) = "Error: "

C1_Witness ==
    /\ CallEnded
    /\ last.failed
    /\ last.name = "find"
    /\ "store" \in Range(last.events)
    /\ LastText = <<"Error: ">> \o StoreFault.msg

\* C2 (as claimed): a call of a name outside the eight tools answers
\* "Error: Unknown tool: {name}" for every payload, the absent and the empty
\* one included, and touches neither the store nor the ledger.
C2_UnknownToolAlwaysReported ==
    (CallEnded /\ last.name \notin ToolNames) =>
        /\ OneText
        /\ LastText = <<"Error: ", "Unknown tool: ", last.name>>
        /\ last.events = <<>>
        /\ insights = history

\* C3: a successful append-insight has appended its text as the last element
\* of the ledger, then sent exactly one resource-updated notification for
\* memo://insights, then returned "Insight added to memo": while the handler
\* waits for the send the text is already the last element and neither the
\* notification nor the response exists, and the response is there only
\* after the notification.
C3_AppendNotifyRespondInOrder ==
    /\ \A i \in 1..Len(awaiting) :
          /\ awaiting[i].events = <<"append", "synthesize", "send">>
          /\ insights # <<>>
          /\ insights[Len(insights)] = awaiting[i].arguments.map["insight"].s
          /\ Len(notifications) < Len(insights)
          /\ last = NoCall
    /\ (CallEnded /\ last.name = "append-insight" /\ ~last.failed) =>
          /\ last.events = <<"append", "synthesize", "send", "notify", "return">>
          /\ OneText
          /\ LastText = <<"Insight added to memo">>
          /\ insights # <<>>
          /\ insights[Len(insights)] = LastInsight
          /\ notifications # <<>>
          /\ notifications[Len(notifications)] = MemoUri
    /\ (CallEnded /\ OneText /\ LastText = <<"Insight added to memo">>) =>
          Cardinality(Positions(last.events, "notify")) = 1

C3_Witness ==
    /\ CallEnded
    /\ last.name = "append-insight"
    /\ ~last.failed
    /\ Len(insights) = 2
    /\ insights[1] # insights[2]

\* C4: a read of memo://insights returns the memo of the ledger as it is when
\* the read runs: its bullets are the ledger's insights, the insight of the
\* newest completed append among them, and it is the very text the read
\* before it returned when no append came between the two.
C4_ReadIsFresh ==
    MemoRead =>
        /\ Bullets(read.text) = insights
        /\ history # <<>> =>
              history[Len(history)] = Bullets(read.text)[Len(Bullets(read.text))]
        /\ read.prev # <<>> => read.text = read.prev

C4_Witness ==
    /\ MemoRead
    /\ read.prev # <<>>
    /\ Len(insights) = 2

\* C5: the memo of a ledger of n insights is the fixed sentence for n = 0;
\* title, header and one bullet with no summary for n = 1; title, header, n
\* bullets and after them one summary that states the count n for n >= 2.
C5_MemoShape ==
    MemoRead =>
        LET t == read.text
            n == Len(insights)
            summary == Positions(t, SummaryHeader)
        IN /\ n = 0 => t = <<NoInsightsYet>>
           /\ n >= 1 => /\ SubSeq(t, 1, 2) = <<MemoTitle, MemoHeader>>
                        /\ Len(Bullets(t)) = n
                        /\ NoInsightsYet \notin Range(t)
           /\ n = 1 => summary = {} /\ Len(t) = 4
           /\ n >= 2 => /\ Cardinality(summary) = 1
                        /\ \A i \in summary :
                              /\ \A j \in Positions(t, "- ") : j < i
                              /\ Len(t) = i + 3
                              /\ t[i + 2] = ToString(n)

C5_Witness ==
    /\ MemoRead
    /\ Len(insights) = 2
    /\ Positions(read.text, SummaryHeader) # {}

\* C6: after append-insight calls with the texts T1..Tn, in the order the
\* calls were processed, the memo has exactly n bullets and the i-th is Ti:
\* nothing is dropped, merged with an equal text, or reordered.
C6_BulletsFollowCallOrder ==
    MemoRead =>
        /\ Len(Bullets(read.text)) = Len(history)
        /\ \A i \in 1..Len(history) : Bullets(read.text)[i] = history[i]

C6_Witness ==
    /\ MemoRead
    /\ Len(history) = 2
    /\ history[1] = history[2]
    /\ Len(notifications) = 2

\* C7: a call of find, aggregate, insert, update, delete or create-collection
\* with a non-empty payload that lacks a required key returns one text that
\* begins with "Error: ", and neither _execute_query nor the store is called.
C7_MissingKeyRejected ==
    (/\ CallEnded
     /\ last.name \in GatewayTools
     /\ ~EmptyPayload(last.arguments)
     /\ Required(last.name) \ Keys(last.arguments) # {}) =>
        /\ OneText
        /\ Head(LastText) = "Error: "
        /\ last.events = <<>>

C7_Witness ==
    /\ CallEnded
    /\ last.name = "update"
    /\ Keys(last.arguments) = {"collection", "filter"}
    /\ store.colls["orders"] # <<>>

\* C8 (as claimed): a call that has every required key but a value of a type
\* other than the one its inputSchema declares is rejected before the
\* gateway: neither _execute_query nor the store is called.
C8_WrongTypeRejected ==
    (/\ CallEnded
     /\ last.name \in GatewayTools
     /\ Required(last.name) \subseteq Keys(last.arguments)
     /\ \E k \in Required(last.name) : last.arguments.map[k].type # SchemaType(k)) =>
        /\ "gateway" \notin Range(last.events)
        /\ "store" \notin Range(last.events)

\* C9: a call of find, aggregate, insert, update, delete or create-collection
\* with an absent or empty payload answers "Error: Missing arguments" and
\* calls neither _execute_query nor the store; list-collections and
\* append-insight never give that answer.
C9_MissingArguments ==
    (CallEnded /\ EmptyPayload(last.arguments)) =>
        /\ last.name \in GatewayTools =>
              /\ OneText
              /\ LastText = <<"Error: ", "Missing arguments">>
              /\ last.events = <<>>
        /\ last.name \in {"list-collections", "append-insight"} =>
              LastText # <<"Error: ", "Missing arguments">>

C9_Witness ==
    /\ CallEnded
    /\ last.name = "delete"
    /\ last.arguments = Dict(NoMap)
    /\ store.colls["orders"] # <<>>

\* C10: an append-insight call whose payload is absent, empty or without the
\* key insight answers "Error: Missing insight argument", and leaves the
\* ledger as it was and sends no notification.
C10_MissingInsight ==
    (/\ CallEnded
     /\ last.name = "append-insight"
     /\ (EmptyPayload(last.arguments) \/ "insight" \notin Keys(last.arguments))) =>
        /\ OneText
        /\ LastText = <<"Error: ", "Missing insight argument">>
        /\ last.events = <<>>
        /\ insights = history
        /\ Len(notifications) <= Len(history)

C10_Witness ==
    /\ CallEnded
    /\ last.name = "append-insight"
    /\ Keys(last.arguments) = {"collection"}
    /\ Len(insights) = 1

\* C11: a read of any address other than memo://insights, whatever its
\* scheme or path, ends with an exception leaving the handler, carrying
\* neither memo text nor error text as a result; a tool call never ends that
\* way.
C11_OtherAddressFailsHard ==
    /\ (read # NoRead /\ read.uri # MemoUri) =>
          /\ read.raised
          /\ read.text = <<>>
          /\ read.exc.kind = "ValueError"
    /\ (read # NoRead /\ read.uri = MemoUri) => ~read.raised
    /\ CallEnded => ~last.resp.raised /\ last.resp.exc = NoExc

C11_Witness ==
    /\ read # NoRead
    /\ read.uri = <<"memo", "://", "insights", "/", "q4">>
    /\ read.raised
    /\ insights # <<>>


\* C12 as stated: once every tool call has completed, error results
\* included, the number of notifications emitted for memo://insights equals
\* the number of insights in the ledger.
C12_NotificationPerInsight ==
    awaiting = <<>> => Len(notifications) = Len(insights)

\* C12: the number of notifications emitted for memo://insights equals the
\* number of insights in the ledger less the appends whose send is still
\* awaited and less the appends whose send raised (those calls end in an
\* error result and keep their insight); a step emits a notification only
\* as the completion of an append-insight call that returns success, one
\* notification at a time, and no other tool call or read emits one.
C12_NotificationAccounting ==
    /\ [](/\ Len(notifications) = Len(insights) - sendFailures - Len(awaiting)
          /\ \A i \in 1..Len(notifications) : notifications[i] = MemoUri)
    /\ [][notifications' # notifications =>
             /\ notifications' = Append(notifications, MemoUri)
             /\ last' # NoCall
             /\ last'.name = "append-insight"
             /\ ~last'.failed
             /\ read' = NoRead
             /\ insights' = insights]_vars

C12_Witness ==
    /\ awaiting = <<>>
    /\ CallEnded
    /\ last.name = "find"
    /\ Len(insights) = 2
    /\ Len(notifications) = 1
    /\ sendFailures = 1


\* C13: every database tool call issues at most one store operation; when
\* the store faults, that one operation is the last thing the gateway does
\* (no retry), the call fails and its response is the single text "Error: "
\* followed by the store's own fault message.
C13_SingleAttemptFailFast ==
    (CallEnded /\ last.name \in GatewayTools) =>
        /\ Cardinality(Positions(last.events, "store")) <= 1
        /\ "fault" \in Range(last.events) =>
              /\ last.events = <<"gateway", "store", "fault">>
              /\ last.failed
              /\ OneText
              /\ LastText = <<"Error: ">> \o StoreFault.msg

C13_Witness ==
    /\ CallEnded
    /\ last.name = "update"
    /\ "fault" \in Range(last.events)
    /\ Len(store.colls["orders"]) = 2


(* The text reports n under the key it names *)
Reports(t, key, n) ==
    \E i \in 1..(Len(t) - 1) : t[i] = key /\ t[i + 1] = ToString(n)

\* C14: a successful update sets every document of the collection that
\* matches filter, not the first match alone, leaves the others as they
\* were, and reports how many documents it modified; a successful delete
\* removes every matching document, keeps every other document in its
\* place, and reports how many it deleted.
C14_MultiDocument ==
    [][(last = NoCall /\ last' # NoCall /\ last'.name \in {"update", "delete"}
           /\ ~last'.failed) =>
        LET a == last'.arguments.map
            old == store.colls[a["collection"].s]
            new == store'.colls[a["collection"].s]
            hit == {i \in 1..Len(old) : Matches(old[i], a["filter"])}
        IN
        IF last'.name = "update"
        THEN /\ Len(new) = Len(old)
             /\ \A i \in hit : new[i] = [id |-> old[i].id, v |-> a["update"].n]
             /\ \A i \in (1..Len(old)) \ hit : new[i] = old[i]
             /\ Reports(last'.resp.content[1].text, "{'modified_count': ",
                        Cardinality({i \in hit : new[i] # old[i]}))
        ELSE /\ new = SelectSeq(old, LAMBDA d : ~Matches(d, a["filter"]))
             /\ \A d \in Range(new) : ~Matches(d, a["filter"])
             /\ Len(new) = Len(old) - Cardinality(hit)
             /\ Reports(last'.resp.content[1].text, "{'deleted_count': ",
                        Cardinality(hit))]_vars

C14_Witness ==
    /\ CallEnded
    /\ last.name = "update"
    /\ ~last.failed
    /\ Reports(LastText, "{'modified_count': ", 2)
    /\ Len(store.colls["orders"]) = 2


\* C15: a successful insert of a sequence of k documents adds exactly those k
\* documents, in order, after the ones the collection held, under k fresh
\* distinct identifiers, and its response lists those k identifiers, each as
\* a string; a successful find with the empty query returns every document
\* the collection holds, however many, each with its identifier as text.
C15_InsertThenFindAll ==
    /\ [][(last = NoCall /\ last' # NoCall /\ last'.name = "insert" /\ ~last'.failed
              /\ last'.arguments.map["documents"].type = "array") =>
            LET a == last'.arguments.map
                vs == a["documents"].seq
                k == Len(vs)
                old == store.colls[a["collection"].s]
                new == store'.colls[a["collection"].s]
                added == SubSeq(new, Len(old) + 1, Len(new))
            IN /\ Len(new) = Len(old) + k
               /\ SubSeq(new, 1, Len(old)) = old
               /\ \A i \in 1..k : added[i].v = vs[i]
               /\ Cardinality({added[i].id : i \in 1..k}) = k
               /\ \A i \in 1..k : \A j \in 1..Len(old) : added[i].id # old[j].id
               /\ last'.resp.content[1].text =
                     StrList(<< <<"{'inserted_ids': ">>
                                \o StrList([i \in 1..k |->
                                              <<"'", ToString(added[i].id), "'">>])
                                \o <<"}">> >>)]_vars
    /\ []((CallEnded /\ last.name = "find" /\ ~last.failed
              /\ last.arguments.map["query"] = ObjV(0)) =>
            LET docs == store.colls[last.arguments.map["collection"].s]
            IN /\ Cardinality(Positions(LastText, "{'_id': {'$oid': '")) = Len(docs)
               /\ LastText = StrList([i \in 1..Len(docs) |->
                     <<"{'_id': {'$oid': '", ToString(docs[i].id), "'}, 'v': ",
                       ToString(docs[i].v), "}">>]))

C15_Witness ==
    /\ CallEnded
    /\ last.name = "find"
    /\ ~last.failed
    /\ last.arguments.map["query"] = ObjV(0)
    /\ Len(store.colls["orders"]) = 2
    /\ store.colls["orders"][1].v = 1
    /\ store.colls["orders"][2].v = 2


\* C16: the ledger starts empty; every step either leaves it as it was or
\* extends it by exactly one element at its end, and a step that extends it
\* is an append-insight call whose payload holds an insight, the element
\* added being that insight; no other tool call, however it ends, no listing
\* of the resources and no read changes it.
C16_AppendOnly ==
    /\ insights = <<>>
    /\ [][\/ insights' = insights
          \/ /\ Len(insights') = Len(insights) + 1
             /\ SubSeq(insights', 1, Len(insights)) = insights
             /\ Len(awaiting') = Len(awaiting) + 1
             /\ LET h == awaiting'[Len(awaiting')] IN
                /\ h.name = "append-insight"
                /\ h.arguments.present
                /\ h.arguments.map["insight"] # Absent
                /\ insights'[Len(insights')] = h.arguments.map["insight"].s]_vars
    /\ [][(last' # last /\ last' # NoCall /\ last'.name # "append-insight")
             => insights' = insights]_vars
    /\ [][(read' # read \/ listed' # listed) => insights' = insights]_vars

C16_Witness ==
    /\ Len(insights) = 2
    /\ insights = history
    /\ listed # <<>>

\* C17: the number of notifications emitted never exceeds the ledger length,
\* and a memo read when k notifications have been emitted holds at least k
\* bullets, the first k of them the first k insights in the order of their
\* calls.
C17_NotificationNeverAhead ==
    /\ Len(notifications) <= Len(insights)
    /\ MemoRead =>
          /\ Len(Bullets(read.text)) >= Len(notifications)
          /\ \A i \in 1..Len(notifications) : Bullets(read.text)[i] = history[i]

C17_Witness ==
    /\ MemoRead
    /\ Len(notifications) = 1
    /\ Len(Bullets(read.text)) = 2
    /\ sendFailures = 1


\* C18: an append-insight call whose send raised returns one text that
\* begins with "Error: " and is not "Insight added to memo", while its
\* insight is the last element of the ledger; every read of
\* memo://insights shows the insight of every call that passed validation,
\* such calls included, at its place.
C18_AppendNotRolledBack ==
    /\ (CallEnded /\ last.name = "append-insight" /\ "raise" \in Range(last.events)) =>
          /\ last.failed
          /\ OneText
          /\ Head(LastText) = "Error: "
          /\ LastText # <<"Insight added to memo">>
          /\ insights # <<>>
          /\ insights[Len(insights)] = LastInsight
    /\ MemoRead =>
          \A i \in 1..Len(history) :
              /\ i <= Len(Bullets(read.text))
              /\ Bullets(read.text)[i] = history[i]

C18_Witness ==
    /\ CallEnded
    /\ last.name = "append-insight"
    /\ "raise" \in Range(last.events)
    /\ Len(insights) = 2
    /\ notifications = <<>>


\* C20: whatever the tool name and the payload, a call that reaches
\* _execute_query is a call of one of the six database tools and hands it
\* one of the names find, aggregate, insert, update, delete,
\* create_collection; no response carries the "Unsupported operation" fault.
C20_UnsupportedOperationUnreachable ==
    CallEnded =>
        /\ Positions(LastText, "Unsupported operation: ") = {}
        /\ "gateway" \in Range(last.events) =>
              /\ last.name \in GatewayTools
              /\ Operation(last.name) \in {"find", "aggregate", "insert", "update",
                                           "delete", "create_collection"}
        /\ last.name \notin GatewayTools => "gateway" \notin Range(last.events)

C20_Witness ==
    /\ CallEnded
    /\ last.name = "create-collection"
    /\ ~last.failed
    /\ "store" \in Range(last.events)
    /\ insights # <<>>


\* C19: with append-insight handlers suspended together at the await and
\* resumed in any order, the ledger is exactly the insights of the validated
\* calls in the order their handlers began (none lost, none twice); the
\* insight of every suspended handler is already in the ledger at its place
\* and a read made meanwhile shows it; every handler that resumes normally
\* writes one notification of its own, whoever else is waiting, and changes
\* the ledger no further.
C19_ConcurrentAppends ==
    /\ [](/\ insights = history
          /\ \A i \in 1..Len(awaiting) :
                /\ awaiting[i].nth <= Len(insights)
                /\ insights[awaiting[i].nth] = awaiting[i].arguments.map["insight"].s
          /\ \A i, j \in 1..Len(awaiting) : i < j => awaiting[i].nth < awaiting[j].nth
          /\ Len(notifications) + Len(awaiting) + sendFailures = Len(history)
          /\ MemoRead => Bullets(read.text) = history)
    /\ [][(Len(awaiting') < Len(awaiting) /\ ~last'.failed) =>
             /\ Len(notifications') = Len(notifications) + 1
             /\ insights' = insights]_vars

C19_Witness ==
    /\ CallEnded
    /\ last.name = "append-insight"
    /\ ~last.failed
    /\ Len(awaiting) = 1
    /\ awaiting[1].nth = 1
    /\ Len(history) = 2
    /\ LastInsight = history[2]
    /\ history[1] # history[2]

====
